---- MODULE Spec2Model ----
(***************************************************************************)
(* A model of the CHIP-8 interpreter of src/src/lib.rs (struct Chip8) and  *)
(* of the host loop of src/src/main.rs that drives it.                     *)
(*                                                                         *)
(* The machine is the record chip8, one field per field of the struct,     *)
(* plus the field panic: "none" while the process runs, otherwise the      *)
(* kind of the Rust panic that ended it.  Every handler of lib.rs is an    *)
(* operator from a machine record to a machine record.                     *)
(***************************************************************************)
EXTENDS Integers, Sequences, FiniteSets, TLC

\* ------------------------------------------------------------ constants
CYCLES_PER_SECOND == 600
DISPLAY_WIDTH == 64
DISPLAY_HEIGHT == 32
KEYPAD_SIZE == 16
MEM_SIZE == 4096
NUM_REGISTERS == 16
SPRITE_END == 159
SPRITE_SIZE == 5
SPRITE_START == 80
STACK_SIZE == 16
START_ADDR == 512
TIMER_FREQ == 60

\* --------------------------------------------------------------- bounds
\* run_cycle is called at most MaxCycles times in a run.
MaxCycles == 34
\* The host presses and releases the keys 0..MaxKey.
MaxKey == 1

\* ------------------------------------------------------ integer helpers
U8 == 256
U16 == 65536

RECURSIVE BitAnd(_, _)
BitAnd(a, b) ==
    IF a = 0 \/ b = 0 THEN 0
    ELSE (a % 2) * (b % 2) + 2 * BitAnd(a \div 2, b \div 2)

RECURSIVE BitOr(_, _)
BitOr(a, b) ==
    IF a = 0 THEN b
    ELSE IF b = 0 THEN a
    ELSE (IF a % 2 = 1 \/ b % 2 = 1 THEN 1 ELSE 0) + 2 * BitOr(a \div 2, b \div 2)

RECURSIVE BitXor(_, _)
BitXor(a, b) ==
    IF a = 0 THEN b
    ELSE IF b = 0 THEN a
    ELSE ((a + b) % 2) + 2 * BitXor(a \div 2, b \div 2)

\* a >> k and, on a u8, a << k
Shr(a, k) == a \div (2 ^ k)
Shl8(a, k) == (a * (2 ^ k)) % U8
Shl16(a, k) == (a * (2 ^ k)) % U16

\* u8::saturating_sub, u8::wrapping_add, u8::overflowing_add/_sub
saturating_sub(a, b) == IF a >= b THEN a - b ELSE 0
wrapping_add(a, b) == (a + b) % U8
overflowing_add(a, b) == [res |-> (a + b) % U8, overflow |-> a + b >= U8]
overflowing_sub(a, b) == [res |-> (a - b) % U8, overflow |-> a < b]

\* The byte arrays memory and display are held sparsely: an array is the
\* function from the indices of its non-zero cells to their values, and every
\* other cell of the array is zero.  Load reads a cell, Store writes one; the
\* bounds of the array are tested where the source indexes it.
Load(arr, a) == IF a \in DOMAIN arr THEN arr[a] ELSE 0
Store(arr, a, val) ==
    IF val = 0 THEN [b \in DOMAIN arr \ {a} |-> arr[b]]
    ELSE [b \in DOMAIN arr \cup {a} |-> IF b = a THEN val ELSE arr[b]]
Sparse(arr) == [a \in {b \in DOMAIN arr : arr[b] # 0} |-> arr[a]]
\* arr[start .. start + Len(bytes)).copy_from_slice(bytes)
CopyFromSlice(arr, start, bytes) ==
    LET slice == start .. start + Len(bytes) - 1
    IN [a \in (DOMAIN arr \ slice) \cup {b \in slice : bytes[b - start + 1] # 0} |->
            IF a \in slice THEN bytes[a - start + 1] ELSE arr[a]]

\* A Rust panic: the machine as it is when the panic is raised.
Panic(m, why) == [m EXCEPT !.panic = why]

\* --------------------------------------------------------- construction
font ==
    << 240, 144, 144, 144, 240,
       32, 96, 32, 32, 112,
       240, 16, 240, 128, 240,
       240, 16, 240, 16, 240,
       144, 144, 240, 16, 16,
       240, 128, 240, 16, 240,
       240, 128, 240, 144, 240,
       240, 16, 32, 64, 64,
       240, 144, 240, 144, 240,
       240, 144, 240, 16, 240,
       240, 144, 240, 144, 144,
       224, 144, 224, 144, 224,
       240, 128, 128, 128, 240,
       224, 144, 144, 144, 224,
       240, 128, 240, 128, 240,
       240, 128, 240, 128, 128 >>

new ==
    [ memory |-> Sparse([a \in 0 .. MEM_SIZE - 1 |->
                    IF a >= SPRITE_START /\ a <= SPRITE_END /\ a - SPRITE_START < Len(font)
                    THEN font[a - SPRITE_START + 1] ELSE 0]),
      display |-> Sparse([p \in 0 .. DISPLAY_WIDTH * DISPLAY_HEIGHT - 1 |-> 0]),
      pc |-> START_ADDR,
      i |-> 0,
      stack |-> [s \in 0 .. STACK_SIZE - 1 |-> 0],
      delay_timer |-> 0,
      sound_timer |-> 0,
      v |-> [r \in 0 .. NUM_REGISTERS - 1 |-> 0],
      sp |-> 0,
      draw_flag |-> FALSE,
      keypad |-> [k \in 0 .. KEYPAD_SIZE - 1 |-> 0],
      internal_timer |-> 0,
      panic |-> "none" ]

\* ------------------------------------------------------------- load_rom
\* file: [err, bytes], what fs::read(path) returns.
load_rom(m, file) ==
    IF file.err THEN Panic(m, "Failed to load ROM")
    ELSE IF START_ADDR + Len(file.bytes) > MEM_SIZE THEN Panic(m, "index out of bounds")
    ELSE [m EXCEPT !.memory = CopyFromSlice(m.memory, START_ADDR, file.bytes)]

\* ----------------------------------------------------------- key events
key_down(m, key) ==
    IF key >= KEYPAD_SIZE THEN Panic(m, "index out of bounds")
    ELSE [m EXCEPT !.keypad[key] = 1]

key_up(m, key) ==
    IF key >= KEYPAD_SIZE THEN Panic(m, "index out of bounds")
    ELSE [m EXCEPT !.keypad[key] = 0]

\* ---------------------------------------------------------------- fetch
\* [m, opcode]: the machine after the fetch and the word fetched (0 when the
\* fetch panics).
fetch_inst(m) ==
    IF m.pc >= MEM_SIZE \/ m.pc + 1 >= MEM_SIZE
    THEN [m |-> Panic(m, "index out of bounds"), opcode |-> 0]
    ELSE [m |-> [m EXCEPT !.pc = m.pc + 2],
          opcode |-> BitOr(Shl16(Load(m.memory, m.pc), 8), Load(m.memory, m.pc + 1))]

\* ------------------------------------------------------------- handlers
\* clear_display as it would be if it left the first cell as it is.
clear_display_from_second(m) ==
    [m EXCEPT !.display = [p \in DOMAIN m.display \cap {0} |-> m.display[p]], !.draw_flag = TRUE]

clear_display(m) ==
    [m EXCEPT !.display = Sparse([p \in 0 .. DISPLAY_WIDTH * DISPLAY_HEIGHT - 1 |-> 0]), !.draw_flag = TRUE]

\* self.sp -= 1 on a u8: with overflow checks the subtraction panics, without
\* them it wraps to 255 and the index panics.
ret(m, overflow_checks) ==
    IF m.sp = 0
    THEN IF overflow_checks THEN Panic(m, "attempt to subtract with overflow")
         ELSE Panic([m EXCEPT !.sp = U8 - 1], "index out of bounds")
    ELSE IF m.sp - 1 >= STACK_SIZE THEN Panic([m EXCEPT !.sp = m.sp - 1], "index out of bounds")
    ELSE [m EXCEPT !.sp = m.sp - 1, !.pc = m.stack[m.sp - 1], !.stack[m.sp - 1] = 0]

jump(m, addr) == [m EXCEPT !.pc = addr]

\* call as it would be if it pushed the address of the call instruction.
call_pushes_call_site(m, addr) ==
    IF m.sp >= STACK_SIZE THEN Panic(m, "index out of bounds")
    ELSE [m EXCEPT !.stack[m.sp] = m.pc - 2, !.pc = addr, !.sp = m.sp + 1]

call(m, addr) ==
    IF m.sp >= STACK_SIZE THEN Panic(m, "index out of bounds")
    ELSE [m EXCEPT !.stack[m.sp] = m.pc, !.pc = addr, !.sp = m.sp + 1]

skip_if_reg_eq_imm(m, x, nn) ==
    IF m.v[x] = nn THEN [m EXCEPT !.pc = m.pc + 2] ELSE m

skip_if_reg_neq_imm(m, x, nn) ==
    IF m.v[x] # nn THEN [m EXCEPT !.pc = m.pc + 2] ELSE m

skip_if_reg_eq_reg(m, x, y) ==
    IF m.v[x] = m.v[y] THEN [m EXCEPT !.pc = m.pc + 2] ELSE m

set_reg_to_imm(m, x, nn) == [m EXCEPT !.v[x] = nn]

add_imm_to_reg(m, x, nn) == [m EXCEPT !.v[x] = wrapping_add(m.v[x], nn)]

set_reg_to_reg(m, x, y) == [m EXCEPT !.v[x] = m.v[y]]

bitwise_or(m, x, y) == [m EXCEPT !.v[x] = BitOr(m.v[x], m.v[y])]

bitwise_and(m, x, y) == [m EXCEPT !.v[x] = BitAnd(m.v[x], m.v[y])]

bitwise_xor(m, x, y) == [m EXCEPT !.v[x] = BitXor(m.v[x], m.v[y])]

\* add_reg_to_reg as it would be if it wrote the flag before the sum.
add_reg_to_reg_flag_first(m, x, y) ==
    LET r == overflowing_add(m.v[x], m.v[y])
        m1 == [m EXCEPT !.v[15] = IF r.overflow THEN 1 ELSE 0]
    IN [m1 EXCEPT !.v[x] = r.res]

\* Two assignments in order: v[x] first, v[0xf] second.
add_reg_to_reg(m, x, y) ==
    LET r == overflowing_add(m.v[x], m.v[y])
        m1 == [m EXCEPT !.v[x] = r.res]
    IN [m1 EXCEPT !.v[15] = IF r.overflow THEN 1 ELSE 0]

sub_reg_from_reg(m, x, y) ==
    LET r == overflowing_sub(m.v[x], m.v[y])
        m1 == [m EXCEPT !.v[x] = r.res]
    IN [m1 EXCEPT !.v[15] = IF ~r.overflow THEN 1 ELSE 0]

\* v[0xf] first, then the shift of v[x] as it is after that assignment.
right_shift(m, x) ==
    LET m1 == [m EXCEPT !.v[15] = BitAnd(m.v[x], 1)]
    IN [m1 EXCEPT !.v[x] = Shr(m1.v[x], 1)]

\* The source subtracts v[y] from v[y].
rsb_reg_from_reg(m, x, y) ==
    LET r == overflowing_sub(m.v[y], m.v[y])
        m1 == [m EXCEPT !.v[x] = r.res]
    IN [m1 EXCEPT !.v[15] = IF ~r.overflow THEN 1 ELSE 0]

left_shift(m, x) ==
    LET m1 == [m EXCEPT !.v[15] = Shr(m.v[x], 7)]
    IN [m1 EXCEPT !.v[x] = Shl8(m1.v[x], 1)]

skip_if_reg_neq_reg(m, x, y) ==
    IF m.v[x] # m.v[y] THEN [m EXCEPT !.pc = m.pc + 2] ELSE m

set_i_to_addr(m, addr) == [m EXCEPT !.i = addr]

jump_with_offset(m, addr) == [m EXCEPT !.pc = addr + m.v[0]]

\* set_reg_to_rand as it would be if it stored the byte drawn as it is.
set_reg_to_rand_unmasked(m, x, nn, num) == [m EXCEPT !.v[x] = num]

\* num: the byte drawn by rand::thread_rng().gen_range(0..=255).
set_reg_to_rand(m, x, nn, num) == [m EXCEPT !.v[x] = BitAnd(num, nn)]

\* draw_pixel as it would be if it set the cell instead of toggling it.
draw_pixel_sets(m, index) ==
    LET m1 == IF Load(m.display, index) = 1 THEN [m EXCEPT !.v[15] = 1] ELSE m
    IN [m1 EXCEPT !.display = Store(m.display, index, 1)]

\* draw_pixel as it would be if it counted the collisions in VF.
draw_pixel_counts(m, index) ==
    LET m1 == IF Load(m.display, index) = 1 THEN [m EXCEPT !.v[15] = m.v[15] + 1] ELSE m
    IN [m1 EXCEPT !.display = Store(m.display, index, BitXor(Load(m.display, index), 1))]

\* One set sprite bit whose cell is inside the array: the collision test, then
\* the toggle.
draw_pixel(m, index) ==
    LET m1 == IF Load(m.display, index) = 1 THEN [m EXCEPT !.v[15] = 1] ELSE m
    IN [m1 EXCEPT !.display = Store(m.display, index, BitXor(Load(m.display, index), 1))]

\* The inner loop of draw from column col on.  The test of index ends the loop
\* before the toggle; the test of x + col ends it after the toggle.
RECURSIVE draw_cols(_, _, _, _, _, _)
draw_cols(m, sprite, x, y, row, col) ==
    IF col >= 8 THEN m
    ELSE LET bit == BitAnd(sprite, Shr(128, col)) # 0
             index == x + col + ((y + row) * DISPLAY_WIDTH)
         IN IF bit /\ index >= DISPLAY_WIDTH * DISPLAY_HEIGHT THEN m
            ELSE LET m1 == IF bit THEN draw_pixel(m, index) ELSE m
                 IN IF x + col >= DISPLAY_WIDTH THEN m1
                    ELSE draw_cols(m1, sprite, x, y, row, col + 1)

\* The outer loop of draw from row row on.
RECURSIVE draw_rows(_, _, _, _, _)
draw_rows(m, x, y, n, row) ==
    IF row >= n THEN m
    ELSE IF m.i + row >= MEM_SIZE THEN Panic(m, "index out of bounds")
    ELSE LET m1 == draw_cols(m, Load(m.memory, m.i + row), x, y, row, 0)
         IN IF y + row >= DISPLAY_HEIGHT THEN m1
            ELSE draw_rows(m1, x, y, n, row + 1)

draw(m, xr, yr, n) ==
    LET x == m.v[xr] % DISPLAY_WIDTH
        y == m.v[yr] % DISPLAY_HEIGHT
        m1 == draw_rows([m EXCEPT !.v[15] = 0], x, y, n, 0)
    IN IF m1.panic # "none" THEN m1 ELSE [m1 EXCEPT !.draw_flag = TRUE]

skip_if_key_pressed(m, x) ==
    IF m.v[x] >= KEYPAD_SIZE THEN Panic(m, "index out of bounds")
    ELSE IF m.keypad[m.v[x]] # 0 THEN [m EXCEPT !.pc = m.pc + 2] ELSE m

skip_if_key_not_pressed(m, x) ==
    IF m.v[x] >= KEYPAD_SIZE THEN Panic(m, "index out of bounds")
    ELSE IF m.keypad[m.v[x]] = 0 THEN [m EXCEPT !.pc = m.pc + 2] ELSE m

get_delay_timer(m, x) == [m EXCEPT !.v[x] = m.delay_timer]

\* The loop of get_key from key k on: the first key that is down, or
\* KEYPAD_SIZE when the loop ends without one.
RECURSIVE first_key_down(_, _)
first_key_down(keypad, k) ==
    IF k >= KEYPAD_SIZE THEN KEYPAD_SIZE
    ELSE IF keypad[k] # 0 THEN k
    ELSE first_key_down(keypad, k + 1)

\* get_key as it would be if it did not rewind the program counter.
get_key_no_rewind(m, x) ==
    LET k == first_key_down(m.keypad, 0)
    IN IF k < KEYPAD_SIZE THEN [m EXCEPT !.v[x] = k] ELSE m

get_key(m, x) ==
    LET k == first_key_down(m.keypad, 0)
    IN IF k < KEYPAD_SIZE THEN [m EXCEPT !.v[x] = k]
       ELSE [m EXCEPT !.pc = m.pc - 2]

set_delay_timer(m, x) == [m EXCEPT !.delay_timer = m.v[x]]

set_sound_timer(m, x) == [m EXCEPT !.sound_timer = m.v[x]]

\* self.i += v[x] on a u16: panics with overflow checks, wraps without.
add_reg_to_i(m, x, overflow_checks) ==
    IF m.i + m.v[x] >= U16
    THEN IF overflow_checks THEN Panic(m, "attempt to add with overflow")
         ELSE [m EXCEPT !.i = (m.i + m.v[x]) % U16]
    ELSE [m EXCEPT !.i = m.i + m.v[x]]

set_i_to_font(m, x) == [m EXCEPT !.i = m.v[x] * SPRITE_SIZE + SPRITE_START]

\* set_bdc as it would be if the tens digit were not reduced modulo 10.
set_bdc_tens_unreduced(m, xr) ==
    LET i == m.i
        x == m.v[xr]
    IN IF i + 2 >= MEM_SIZE THEN Panic(m, "index out of bounds")
       ELSE [m EXCEPT !.memory =
                Store(Store(Store(m.memory, i, x \div 100), i + 1, x \div 10), i + 2, x % 10)]

\* Three indexed writes in order; each panics when its address is outside the
\* memory, after the writes before it.
set_bdc(m, xr) ==
    LET i == m.i
        x == m.v[xr]
    IN IF i >= MEM_SIZE THEN Panic(m, "index out of bounds")
       ELSE LET m1 == [m EXCEPT !.memory = Store(m.memory, i, x \div 100)]
            IN IF i + 1 >= MEM_SIZE THEN Panic(m1, "index out of bounds")
               ELSE LET m2 == [m1 EXCEPT !.memory = Store(m1.memory, i + 1, (x \div 10) % 10)]
                    IN IF i + 2 >= MEM_SIZE THEN Panic(m2, "index out of bounds")
                       ELSE [m2 EXCEPT !.memory = Store(m2.memory, i + 2, x % 10)]

\* The loop of reg_dump from register j on.
RECURSIVE reg_dump_from(_, _, _)
reg_dump_from(m, x, j) ==
    IF j > x THEN m
    ELSE IF m.i + j >= MEM_SIZE THEN Panic(m, "index out of bounds")
    ELSE reg_dump_from([m EXCEPT !.memory = Store(m.memory, m.i + j, m.v[j])], x, j + 1)

\* reg_dump as it would be if it left the address register after the bytes
\* it wrote.
reg_dump_advances_i(m, x) ==
    LET m1 == reg_dump_from(m, x, 0)
    IN IF m1.panic # "none" THEN m1 ELSE [m1 EXCEPT !.i = m.i + x + 1]

reg_dump(m, x) == reg_dump_from(m, x, 0)

\* The loop of reg_load from register j on.
RECURSIVE reg_load_from(_, _, _)
reg_load_from(m, x, j) ==
    IF j > x THEN m
    ELSE IF m.i + j >= MEM_SIZE THEN Panic(m, "index out of bounds")
    ELSE reg_load_from([m EXCEPT !.v[j] = Load(m.memory, m.i + j)], x, j + 1)

reg_load(m, x) == reg_load_from(m, x, 0)

\* --------------------------------------------------------------- decode
\* The operand fields of an instruction word.
FieldX(opcode) == Shr(BitAnd(opcode, 3840), 8)
FieldY(opcode) == Shr(BitAnd(opcode, 240), 4)
FieldN(opcode) == BitAnd(opcode, 15)
FieldNN(opcode) == BitAnd(opcode, 255)
FieldNNN(opcode) == BitAnd(opcode, 4095)
Family(opcode) == Shr(BitAnd(opcode, 61440), 12)

\* num is the random byte a CXNN draws; overflow_checks is the build's setting.
execute_inst(m, opcode, num, overflow_checks) ==
    LET x == FieldX(opcode)
        y == FieldY(opcode)
        n == FieldN(opcode)
        nn == FieldNN(opcode)
        nnn == FieldNNN(opcode)
        fam == Family(opcode)
        unknown == Panic(m, "Unknown opcode")
    IN CASE fam = 0 ->
              (CASE nnn = 224 -> clear_display(m)
                 [] nnn = 238 -> ret(m, overflow_checks)
                 [] OTHER -> m)
         [] fam = 1 -> jump(m, nnn)
         [] fam = 2 -> call(m, nnn)
         [] fam = 3 -> skip_if_reg_eq_imm(m, x, nn)
         [] fam = 4 -> skip_if_reg_neq_imm(m, x, nn)
         [] fam = 5 -> skip_if_reg_eq_reg(m, x, y)
         [] fam = 6 -> set_reg_to_imm(m, x, nn)
         [] fam = 7 -> add_imm_to_reg(m, x, nn)
         [] fam = 8 ->
              (CASE n = 0 -> set_reg_to_reg(m, x, y)
                 [] n = 1 -> bitwise_or(m, x, y)
                 [] n = 2 -> bitwise_and(m, x, y)
                 [] n = 3 -> bitwise_xor(m, x, y)
                 [] n = 4 -> add_reg_to_reg(m, x, y)
                 [] n = 5 -> sub_reg_from_reg(m, x, y)
                 [] n = 6 -> right_shift(m, x)
                 [] n = 7 -> rsb_reg_from_reg(m, x, y)
                 [] n = 14 -> left_shift(m, x)
                 [] OTHER -> unknown)
         [] fam = 9 -> skip_if_reg_neq_reg(m, x, y)
         [] fam = 10 -> set_i_to_addr(m, nnn)
         [] fam = 11 -> jump_with_offset(m, nnn)
         [] fam = 12 -> set_reg_to_rand(m, x, nn, num)
         [] fam = 13 -> draw(m, x, y, n)
         [] fam = 14 ->
              (CASE nn = 158 -> skip_if_key_pressed(m, x)
                 [] nn = 161 -> skip_if_key_not_pressed(m, x)
                 [] OTHER -> unknown)
         [] fam = 15 ->
              (CASE nn = 7 -> get_delay_timer(m, x)
                 [] nn = 10 -> get_key(m, x)
                 [] nn = 21 -> set_delay_timer(m, x)
                 [] nn = 24 -> set_sound_timer(m, x)
                 [] nn = 30 -> add_reg_to_i(m, x, overflow_checks)
                 [] nn = 41 -> set_i_to_font(m, x)
                 [] nn = 51 -> set_bdc(m, x)
                 [] nn = 85 -> reg_dump(m, x)
                 [] nn = 101 -> reg_load(m, x)
                 [] OTHER -> unknown)
         [] OTHER -> unknown

\* ------------------------------------------------------------ run_cycle
\* pace_timers as it would be if run_cycle did not reset the frame flag.
pace_timers_keeps_flag(m) ==
    IF m.internal_timer > 0
    THEN [m EXCEPT !.internal_timer = m.internal_timer - 1]
    ELSE [m EXCEPT !.internal_timer = CYCLES_PER_SECOND \div TIMER_FREQ,
                   !.delay_timer = saturating_sub(m.delay_timer, 1),
                   !.sound_timer = saturating_sub(m.sound_timer, 1)]

\* The head of run_cycle: the frame flag is reset and the timers are paced.
pace_timers(m) ==
    LET m1 == [m EXCEPT !.draw_flag = FALSE]
    IN IF m1.internal_timer > 0
       THEN [m1 EXCEPT !.internal_timer = m1.internal_timer - 1]
       ELSE [m1 EXCEPT !.internal_timer = CYCLES_PER_SECOND \div TIMER_FREQ,
                       !.delay_timer = saturating_sub(m1.delay_timer, 1),
                       !.sound_timer = saturating_sub(m1.sound_timer, 1)]

run_cycle(m, num, overflow_checks) ==
    LET f == fetch_inst(pace_timers(m))
    IN IF f.m.panic # "none" THEN f.m
       ELSE execute_inst(f.m, f.opcode, num, overflow_checks)

\* ----------------------------------------------------------------- ROMs
\* An instruction word from its four nibbles or from its family, register and
\* byte, and a ROM file from its words.
Ins(f, x, y, n) == f * 4096 + x * 256 + y * 16 + n
InsB(f, x, nn) == f * 4096 + x * 256 + nn
Bytes(words) ==
    [k \in 1 .. 2 * Len(words) |->
        IF k % 2 = 1 THEN words[(k + 1) \div 2] \div 256 ELSE words[k \div 2] % 256]
File(words) == [err |-> FALSE, bytes |-> Bytes(words)]
NoFile == [err |-> TRUE, bytes |-> << >>]

\* The address of word w (counted from 0) of a loaded ROM.
Addr(w) == START_ADDR + 2 * w

\* Register indices and register values the ROMs below range over.
Regs == {0, 1, 15}
Vals == {0, 1, 128, 255}

\* Two registers are set, then one 8XYN instruction runs.
AluRoms ==
    { File(<< InsB(6, x, a), InsB(6, y, b), Ins(8, x, y, n) >>) :
        x \in Regs, y \in Regs, a \in Vals, b \in Vals, n \in {4, 5, 6, 7, 14} }

\* 1NNN and 2NNN to the word w of the ROM.
JumpTo(w) == 4096 + Addr(w)
CallTo(w) == 8192 + Addr(w)

\* k copies of word, then the words rest.
RECURSIVE Padded(_, _, _)
Padded(k, word, rest) == IF k = 0 THEN rest ELSE << word >> \o Padded(k - 1, word, rest)

\* Register x is set (1 + k times), then one or both timers are set from it,
\* and the program loops on a jump to itself.
TimerSets(x, which) ==
    CASE which = "delay" -> << InsB(15, x, 21) >>
      [] which = "sound" -> << InsB(15, x, 24) >>
      [] OTHER -> << InsB(15, x, 21), InsB(15, x, 24) >>
TimerRoms ==
    { File(Padded(k, InsB(6, x, a),
                  << InsB(6, x, a) >> \o TimerSets(x, which)
                      \o << JumpTo(k + 1 + Len(TimerSets(x, which))) >>)) :
        k \in {0, 1, 5, 9}, x \in {0, 15}, a \in {0, 1, 2, 3, 255},
        which \in {"delay", "sound", "both"} }

\* Words that are in no row of the opcode table, and some that are.
UndefinedWords ==
    { 0, 1, 225, 4095, Ins(5, 0, 1, 1), Ins(5, 1, 2, 15), Ins(9, 0, 1, 1), Ins(9, 0, 0, 15),
      Ins(14, 0, 0, 0), Ins(14, 0, 9, 15), Ins(14, 1, 10, 2),
      Ins(15, 0, 0, 0), Ins(15, 0, 0, 11), Ins(15, 1, 6, 6), Ins(15, 15, 15, 15) }
      \cup { Ins(8, 0, 1, n) : n \in {8, 9, 10, 11, 12, 13, 15} }
DefinedWords ==
    { 224, Ins(5, 0, 1, 0), Ins(9, 0, 1, 0), Ins(8, 0, 1, 0), Ins(8, 0, 1, 14),
      Ins(14, 0, 9, 14), Ins(14, 0, 10, 1), Ins(15, 0, 0, 7), Ins(12, 0, 15, 15) }

\* Registers 0 and 1 are set, then one word runs.
DecodeRoms ==
    { File(<< InsB(6, 0, a), InsB(6, 1, b), w >>) :
        a \in {0, 1}, b \in {0, 1}, w \in UndefinedWords \cup DefinedWords }

\* A ROM of len bytes: a jump to itself, then bytes that are not zero.
Filled(len) ==
    [err |-> FALSE,
     bytes |-> [k \in 1 .. len |-> IF k = 1 THEN 18 ELSE IF k = 2 THEN 0 ELSE (k % 251) + 1]]

\* Files of a length up to, at and over the program space, and no file.
LoadRoms ==
    { Filled(len) : len \in {0, 1, 2, 7, MEM_SIZE - START_ADDR - 1, MEM_SIZE - START_ADDR,
                             MEM_SIZE - START_ADDR + 1, MEM_SIZE} }
      \cup { NoFile }

\* n nested calls, then n returns: word 0 calls word 2 and word 1 is a jump
\* to itself; each level (words 2k, 2k+1) calls the next one and returns,
\* and the last level only returns.
Nest(n) ==
    [w \in 1 .. 2 * n + 2 |->
        IF w = 1 THEN CallTo(2)
        ELSE IF w = 2 THEN JumpTo(1)
        ELSE IF w % 2 = 1 /\ w < 2 * n + 1 THEN CallTo(w + 1)
        ELSE 238]

\* Nested calls and returns, a call of itself, a return with nothing to
\* return from, and a call that returns twice.
StackRoms ==
    { File(Nest(n)) : n \in {1, 2, 3, 8, 15, 16, 17} }
      \cup { File(<< CallTo(0) >>), File(<< 238 >>), File(<< CallTo(1), 238 >>) }

\* Register x is set, then FX0A waits for a key, then the program loops on
\* a jump to itself.
KeyRoms ==
    { File(<< InsB(6, x, a), InsB(15, x, 10), JumpTo(2) >>) : x \in Regs, a \in {0, 1, 7, 255} }

\* A sprite is drawn twice in a row and the display is cleared.  Before that
\* the glyph of 0 is drawn at (0, 0) when pre holds.  The sprite is read at
\* addr; word 9 and the two after it hold sprite rows with bits in every column.
DrawWords(pre, addr, x, y, vx, vy, n) ==
    << 40960 + SPRITE_START,
       IF pre THEN Ins(13, 2, 3, 5) ELSE InsB(6, 2, 0),
       40960 + addr,
       InsB(6, x, vx),
       InsB(6, y, vy),
       Ins(13, x, y, n),
       Ins(13, x, y, n),
       224,
       JumpTo(8),
       65409, 384, 65304 >>

DrawRoms ==
    { File(DrawWords(pre, addr, xy[1], xy[2], vx, vy, n)) :
        pre \in BOOLEAN,
        addr \in {SPRITE_START, Addr(9)},
        xy \in {<< 0, 1 >>, << 0, 0 >>, << 15, 1 >>},
        vx \in {0, 61, 63, 66},
        vy \in {0, 95},
        n \in {2, 5} }
      \cup
    { File(DrawWords(pre, addr, 0, 1, 61, 30, n)) :
        pre \in BOOLEAN,
        addr \in {SPRITE_START, Addr(9), MEM_SIZE - 1},
        n \in {0, 1, 3, 15} }

\* Addresses a program may name in 1NNN, 2NNN and BNNN: the first byte of the
\* memory, the last byte below the program space, words 0 and 2 of the ROM,
\* the second byte of word 0, and the last two bytes of the memory.
Targets == {0, START_ADDR - 1, Addr(0), Addr(0) + 1, Addr(2), MEM_SIZE - 2, MEM_SIZE - 1}

\* A subroutine that returns, a skip, a wait for a key and a jump to itself:
\* word 0 calls word 5, word 1 skips word 2, word 3 waits and word 4 loops.
FlowWords == << CallTo(5), InsB(3, 0, 0), JumpTo(2), InsB(15, 0, 10), JumpTo(4), 238 >>

\* One jump or call to a target, a BNNN after V0 is set, and FlowWords.
JumpRoms ==
    { File(<< f * 4096 + t, 0, JumpTo(2) >>) : f \in {1, 2}, t \in Targets }
      \cup
    { File(<< InsB(6, 0, a), 11 * 4096 + t, JumpTo(2) >>) :
        a \in {0, 1, 2, 255}, t \in {Addr(2), MEM_SIZE - 2, MEM_SIZE - 1} }
      \cup
    { File(FlowWords) }

\* Register x is set, the address register is set, FX33 runs, and the program
\* loops on a jump to itself.
BcdRoms ==
    { File(<< InsB(6, x, a), 40960 + i, InsB(15, x, 51), JumpTo(3) >>) :
        x \in Regs,
        a \in {0, 9, 10, 99, 100, 128, 255},
        i \in {Addr(8), MEM_SIZE - 3, MEM_SIZE - 2, MEM_SIZE - 1} }

\* Registers 0, 1 and 15 are set, FX55 dumps registers 0..x at i, registers
\* 0 and 1 are set again (and V15, when x is 15), FX65 loads registers 0..x
\* from i, and the program loops on a jump to itself.
DumpWords(x, a, b, i) ==
    << InsB(6, 0, a), InsB(6, 1, b), InsB(6, 15, 255 - a), 40960 + i, InsB(15, x, 85),
       InsB(6, 0, b), InsB(6, 1, 255 - b), InsB(6, IF x = 15 THEN 15 ELSE 1, 77),
       InsB(15, x, 101), JumpTo(9) >>

DumpRoms ==
    { File(DumpWords(x, a, b, i)) :
        x \in Regs, a \in {0, 3, 255}, b \in {0, 200},
        i \in {Addr(12), SPRITE_START, MEM_SIZE - 16, MEM_SIZE - 2, MEM_SIZE - 1} }

\* The address register is set to the last byte of the memory, or beyond it
\* by FX1E, and then a sprite is drawn, or registers are loaded or dumped, or
\* FX33 runs; and a jump to the last byte of the memory.
EdgeRoms ==
    { File(<< 40960 + MEM_SIZE - 1, InsB(6, 0, a), InsB(15, 0, 30), w, JumpTo(4) >>) :
        a \in {0, 1, 255},
        w \in {Ins(13, 1, 1, 1), Ins(13, 1, 1, 2), InsB(15, 0, 51), InsB(15, 0, 85),
               InsB(15, 0, 101), InsB(15, 1, 101)} }
      \cup
    { File(<< 4096 + MEM_SIZE - 1 >>) }

MemRoms == BcdRoms \cup DumpRoms \cup EdgeRoms

\* Registers x and y are set, one skip instruction runs, then two additions
\* (the first of which is skipped or not), and a jump to itself.
SkipWords(x, y) ==
    { InsB(3, x, 0), InsB(3, x, 1), InsB(4, x, 0), InsB(4, x, 1), Ins(5, x, y, 0),
      Ins(9, x, y, 0), InsB(14, x, 158), InsB(14, x, 161) }
SkipRomsOf(x, y) ==
    { File(<< InsB(6, x, a), InsB(6, y, b), w, InsB(7, x, 1), InsB(7, y, 2), JumpTo(5) >>) :
        a \in {0, 1, 16, 255}, b \in {0, 1}, w \in SkipWords(x, y) }
SkipRoms == SkipRomsOf(0, 1) \cup SkipRomsOf(1, 1) \cup SkipRomsOf(15, 0)

\* Register x is set, CXNN draws into it, 1 is added to it, FX0A waits for a
\* key, and the program loops on a jump to itself.
RandRoms ==
    { File(<< InsB(6, x, a), InsB(12, x, nn), InsB(7, x, 1), InsB(15, x, 10), JumpTo(4) >>) :
        x \in Regs, a \in {0, 255}, nn \in {0, 15, 170, 255} }

\* ------------------------------------------------------------ the state
VARIABLES
    chip8,            \* the Chip8 of main
    rom,              \* the file at the path given on the command line
    host,             \* where main is: "start" before load_rom, "loop" after
    overflow_checks,  \* whether the build panics on integer overflow
    opcode,           \* the word fetched by the last run_cycle (-1: none)
    before,           \* what the last run_cycle found: see Snapshot
    cycles,           \* the number of run_cycle calls so far
    calls,            \* history: the calls not yet returned from, oldest first
    timer_set,        \* history: when each timer was last set, and to what
    dumped            \* history: the last FX55 that ran to its end (x = -1: none)

vars == << chip8, rom, host, overflow_checks, opcode, before, cycles, calls, timer_set, dumped >>

Keys == 0 .. MaxKey

\* The bytes the random generator may yield, and those a cycle that fetches
\* op draws from it: only CXNN draws one.
RandBytes == {0, 85, 170, 255}
RandDraws(op) == IF Family(op) = 12 THEN RandBytes ELSE {0}

\* The fields of machine m that the properties compare a cycle's result with.
Snapshot(m) ==
    [ memory |-> m.memory, display |-> m.display, pc |-> m.pc, i |-> m.i,
      sp |-> m.sp, v |-> m.v, draw_flag |-> m.draw_flag ]

InitWith(roms) ==
    /\ chip8 = new
    /\ rom \in roms
    /\ host = "start"
    /\ overflow_checks \in BOOLEAN
    /\ opcode = -1
    /\ before = Snapshot(new)
    /\ cycles = 0
    /\ calls = << >>
    /\ timer_set = [delay |-> [v |-> 0, at |-> 0], sound |-> [v |-> 0, at |-> 0]]
    /\ dumped = [x |-> -1, i |-> 0, v |-> new.v, region |-> << >>]

Running == host = "loop" /\ chip8.panic = "none"

\* main: chip8.load_rom(&path)
LoadRom ==
    /\ host = "start"
    /\ chip8.panic = "none"
    /\ chip8' = load_rom(chip8, rom)
    /\ host' = "loop"
    /\ UNCHANGED << rom, overflow_checks, opcode, before, cycles, calls, timer_set, dumped >>

\* The history of calls after a cycle that fetched op in machine m and left
\* machine m2.
CallsAfter(m, op, m2) ==
    IF m2.panic # "none" THEN calls
    ELSE IF Family(op) = 2 THEN Append(calls, [ret |-> m.pc + 2, sp |-> m.sp])
    ELSE IF op = 238 /\ Len(calls) > 0 THEN SubSeq(calls, 1, Len(calls) - 1)
    ELSE calls

\* The history of timer settings after cycle number c fetched op and left m2.
TimerSetAfter(op, m2, c) ==
    IF m2.panic # "none" \/ Family(op) # 15 THEN timer_set
    ELSE IF FieldNN(op) = 21 THEN [timer_set EXCEPT !.delay = [v |-> m2.delay_timer, at |-> c]]
    ELSE IF FieldNN(op) = 24 THEN [timer_set EXCEPT !.sound = [v |-> m2.sound_timer, at |-> c]]
    ELSE timer_set

\* The history of dumps after a cycle that fetched op in machine m and left
\* machine m2: the register index and the address of the FX55, the registers
\* it found, and the bytes of memory[I .. I + X] as it left them.
DumpedAfter(m, op, m2) ==
    IF m2.panic = "none" /\ Family(op) = 15 /\ FieldNN(op) = 85
    THEN [x |-> FieldX(op), i |-> m.i, v |-> m.v,
          region |-> [j \in 0 .. FieldX(op) |-> Load(m2.memory, m.i + j)]]
    ELSE dumped

\* main: chip8.run_cycle()
RunCycle ==
    /\ Running
    /\ cycles < MaxCycles
    /\ LET f == fetch_inst(pace_timers(chip8))
           op == IF f.m.panic # "none" THEN 0 ELSE f.opcode
       IN /\ \E num \in RandDraws(op) :
                LET m2 == run_cycle(chip8, num, overflow_checks)
                IN /\ chip8' = m2
                   /\ calls' = CallsAfter(chip8, op, m2)
                   /\ timer_set' = TimerSetAfter(op, m2, cycles + 1)
                   /\ dumped' = DumpedAfter(chip8, op, m2)
          /\ opcode' = IF f.m.panic # "none" THEN -1 ELSE f.opcode
    /\ before' = Snapshot(chip8)
    /\ cycles' = cycles + 1
    /\ UNCHANGED << rom, host, overflow_checks >>

\* key_down, which main calls for an Event::KeyDown of a mapped key.  The
\* method is public and is taken at any point between two cycles.
KeyDown ==
    /\ Running
    /\ \E key \in Keys : chip8' = key_down(chip8, key)
    /\ UNCHANGED << rom, host, overflow_checks, opcode, before, cycles, calls, timer_set,
                    dumped >>

\* key_up, which main calls for an Event::KeyUp of a mapped key.
KeyUp ==
    /\ Running
    /\ \E key \in Keys : chip8' = key_up(chip8, key)
    /\ UNCHANGED << rom, host, overflow_checks, opcode, before, cycles, calls, timer_set,
                    dumped >>

Next == LoadRom \/ RunCycle \/ KeyDown \/ KeyUp

\* ------------------------------------------------------------ 8XYN
InitAlu == InitWith(AluRoms)
SpecAlu == InitAlu /\ [][Next]_vars

\* The last cycle fetched op and ran it to its end.
Executed(op) == cycles > 0 /\ opcode = op /\ chip8.panic = "none"
\* The last cycle fetched a word of family fam and ran it to its end.
ExecutedFamily(fam) == cycles > 0 /\ opcode >= 0 /\ Family(opcode) = fam /\ chip8.panic = "none"

\* C1: after an 8XY7 with X # 15, register X holds (VY - VX) mod 256 and VF
\* is 1 if VY >= VX and 0 otherwise, VX and VY being the values before the
\* instruction.
C1_ReversedSubtract ==
    (ExecutedFamily(8) /\ FieldN(opcode) = 7 /\ FieldX(opcode) # 15) =>
        LET x == FieldX(opcode)
            y == FieldY(opcode)
        IN /\ chip8.v[x] = (before.v[y] - before.v[x]) % 256
           /\ chip8.v[15] = IF before.v[y] >= before.v[x] THEN 1 ELSE 0

\* ------------------------------------------------------------ timers
InitTimer == InitWith(TimerRoms)
SpecTimer == InitTimer /\ [][Next]_vars

\* The timer decrements the spec gives to T cycles at the declared rate.
Ticks(T) == (T * TIMER_FREQ) \div CYCLES_PER_SECOND
Decayed(set, now) ==
    LET left == set.v - Ticks(now - set.at) IN IF left > 0 THEN left ELSE 0

\* C2: T cycles after a timer was last set (or the machine constructed), with
\* value v, the timer has been decremented min(v, floor(T * 60 / 600)) times.
C2_TimerCadence ==
    chip8.panic = "none" =>
        /\ chip8.delay_timer = Decayed(timer_set.delay, cycles)
        /\ chip8.sound_timer = Decayed(timer_set.sound, cycles)

\* ------------------------------------------------------------ decode
InitDecode == InitWith(DecodeRoms)
SpecDecode == InitDecode /\ [][Next]_vars

\* The rows of the opcode table of the spec.
InOpcodeTable(op) ==
    LET fam == op \div 4096
        n == op % 16
        nn == op % 256
        nnn == op % 4096
    IN \/ fam = 0 /\ nnn \in {224, 238}
       \/ fam \in {1, 2, 3, 4, 6, 7, 10, 11, 12, 13}
       \/ fam \in {5, 9} /\ n = 0
       \/ fam = 8 /\ n \in {0, 1, 2, 3, 4, 5, 6, 7, 14}
       \/ fam = 14 /\ nn \in {158, 161}
       \/ fam = 15 /\ nn \in {7, 10, 21, 24, 30, 41, 51, 85, 101}

\* C3: a cycle that fetches a word of no row of the opcode table ends in an
\* unknown-instruction error.
C3_UnknownInstruction ==
    (cycles > 0 /\ opcode >= 0 /\ ~InOpcodeTable(opcode)) => chip8.panic = "Unknown opcode"

\* ------------------------------------------------------------ load
InitLoad == InitWith(LoadRoms)
SpecLoad == InitLoad /\ [][Next]_vars

\* main has called load_rom on a file that could be read, and nothing since.
Loaded == host = "loop" /\ cycles = 0 /\ ~rom.err

\* C4: a load of L <= 3584 bytes copies them to memory[0x200 .. 0x200+L) and
\* leaves every other byte as it was; a load of more bytes leaves the memory
\* as it was and does not end the process.
C4_ProgramLoad ==
    Loaded =>
        LET L == Len(rom.bytes)
        IN IF L <= MEM_SIZE - START_ADDR
           THEN \A a \in 0 .. MEM_SIZE - 1 :
                    Load(chip8.memory, a) =
                        IF a >= START_ADDR /\ a < START_ADDR + L
                        THEN rom.bytes[a - START_ADDR + 1]
                        ELSE Load(new.memory, a)
           ELSE chip8.memory = new.memory /\ chip8.panic = "none"

\* ------------------------------------------------------------ stack
InitStack == InitWith(StackRoms)
SpecStack == InitStack /\ [][Next]_vars

\* C5: a call with the stack pointer at 16 and a return with it at 0 are an
\* error outcome of the cycle and do not end the process, and the stack
\* pointer is in 0..16 in every state.
C5_StackBounds ==
    /\ chip8.sp \in 0 .. STACK_SIZE
    /\ (cycles > 0 /\ opcode >= 0
          /\ \/ Family(opcode) = 2 /\ before.sp = STACK_SIZE
             \/ opcode = 238 /\ before.sp = 0)
        => chip8.panic = "none"

\* A step that is a cycle running a 2NNN, or a 00EE, to its end.
CallStep == cycles' = cycles + 1 /\ opcode' >= 0 /\ Family(opcode') = 2 /\ chip8'.panic = "none"
RetStep == cycles' = cycles + 1 /\ opcode' = 238 /\ chip8'.panic = "none"

\* C7: a call pushes the address after the call instruction, and a return
\* leaves the program counter at the address after the call it returns from
\* and the stack pointer at its value before that call; hence n nested calls
\* and n returns end after the first call with the stack pointer restored.
C7_CallReturnBalance ==
    [][ /\ CallStep =>
            /\ chip8'.stack[chip8.sp] = chip8.pc + 2
            /\ chip8'.sp = chip8.sp + 1
            /\ chip8'.pc = FieldNNN(opcode')
        /\ RetStep =>
            /\ Len(calls) > 0
            /\ chip8'.pc = calls[Len(calls)].ret
            /\ chip8'.sp = calls[Len(calls)].sp ]_vars

\* Sixteen nested calls have all returned: the machine is back after the
\* first call with an empty stack.
C7_Witness ==
    /\ rom = File(Nest(16))
    /\ cycles = 32
    /\ Executed(238)
    /\ before.sp = 1
    /\ chip8.sp = 0
    /\ chip8.pc = Addr(1)

\* ------------------------------------------------------------ keys
InitKey == InitWith(KeyRoms)
SpecKey == InitKey /\ [][Next]_vars

\* The last cycle ran an FX0A to its end.
ExecutedGetKey == ExecutedFamily(15) /\ FieldNN(opcode) = 10
KeysDown(m) == {k \in 0 .. KEYPAD_SIZE - 1 : m.keypad[k] # 0}
Lowest(S) == CHOOSE k \in S : \A j \in S : k <= j

\* A step that is a cycle running an FX0A to its end.
GetKeyStep ==
    /\ cycles' = cycles + 1
    /\ opcode' >= 0 /\ Family(opcode') = 15 /\ FieldNN(opcode') = 10
    /\ chip8'.panic = "none"

\* C6: a cycle that runs FX0A at address a with all keys up leaves the
\* program counter at a and register X as it was; with a key down it leaves
\* the program counter at a + 2 and register X at the lowest key that is down.
C6_WaitForKey ==
    [][ GetKeyStep =>
            IF KeysDown(chip8) = {}
            THEN chip8'.pc = chip8.pc /\ chip8'.v = chip8.v
            ELSE /\ chip8'.pc = chip8.pc + 2
                 /\ chip8'.v[FieldX(opcode')] = Lowest(KeysDown(chip8)) ]_vars

\* FX0A has waited through a cycle with all keys up and is then run with
\* key 1 down and key 0 up: register X, which held another value, holds 1.
C6_Witness ==
    /\ ExecutedGetKey
    /\ cycles > 2
    /\ KeysDown(chip8) = {1}
    /\ before.v[FieldX(opcode)] # 1
    /\ chip8.v[FieldX(opcode)] = 1
    /\ before.pc = Addr(1)
    /\ chip8.pc = Addr(2)

\* ------------------------------------------------------------ draw
InitDraw == InitWith(DrawRoms)
SpecDraw == InitDraw /\ [][Next]_vars

\* The last cycle ran a DXYN to its end.
ExecutedDraw == ExecutedFamily(13)
\* Bit c (from the high bit) of row r of the sprite machine m reads.
SpriteBit(m, r, c) == (Load(m.memory, m.i + r) \div (2 ^ (7 - c))) % 2 = 1
\* The cells in which two displays differ.
Changed(d1, d2) == {p \in DOMAIN d1 \cup DOMAIN d2 : Load(d1, p) # Load(d2, p)}

\* C8: a DXYN changes a cell only if it is the cell (x0 + c, y0 + r) of a set
\* sprite bit (r, c) with x0 + c < 64 and y0 + r < 32, where (x0, y0) is
\* (VX mod 64, VY mod 32).
C8_DrawClipping ==
    ExecutedDraw =>
        LET x0 == before.v[FieldX(opcode)] % DISPLAY_WIDTH
            y0 == before.v[FieldY(opcode)] % DISPLAY_HEIGHT
        IN \A p \in Changed(before.display, chip8.display) :
              \E r \in 0 .. FieldN(opcode) - 1, c \in 0 .. 7 :
                  /\ SpriteBit(before, r, c)
                  /\ x0 + c < DISPLAY_WIDTH
                  /\ y0 + r < DISPLAY_HEIGHT
                  /\ p = (y0 + r) * DISPLAY_WIDTH + x0 + c

\* A step that runs to its end the DXYN the cycle before it ran, with VX, VY,
\* the address register and the memory as that cycle found them.
SameDrawAgain ==
    /\ ExecutedDraw
    /\ cycles' = cycles + 1
    /\ opcode' = opcode
    /\ chip8'.panic = "none"
    /\ chip8.v[FieldX(opcode)] = before.v[FieldX(opcode)]
    /\ chip8.v[FieldY(opcode)] = before.v[FieldY(opcode)]
    /\ chip8.i = before.i
    /\ chip8.memory = before.memory

\* C9: the second of two equal DXYN in a row leaves the display as it was
\* before the first, and sets VF to 1 when the first turned a cell on.
C9_DrawTwice ==
    [][ SameDrawAgain =>
            /\ chip8'.display = before.display
            /\ (\E p \in DOMAIN chip8.display :
                    Load(before.display, p) = 0 /\ chip8.display[p] = 1)
                => chip8'.v[15] = 1 ]_vars

\* The second draw of a ROM that drew the glyph first has run: it took back
\* what the first draw changed, part of the glyph is lit, and VF is 1.
C9_Witness ==
    /\ ExecutedDraw
    /\ cycles = 7
    /\ chip8.pc = Addr(7)
    /\ chip8.v[15] = 1
    /\ Changed(before.display, chip8.display) # {}
    /\ \E p \in DOMAIN chip8.display : p \notin Changed(before.display, chip8.display)

\* C10: after a cycle the frame flag is set if and only if the cycle ran a
\* 00E0 or a DXYN.
C10_FrameFlag ==
    (cycles > 0 /\ opcode >= 0 /\ chip8.panic = "none") =>
        (chip8.draw_flag <=> (opcode = 224 \/ Family(opcode) = 13))

\* A DXYN that changed no cell has set the flag, after a cycle that had set
\* it too.
C10_Witness ==
    /\ ExecutedDraw
    /\ chip8.draw_flag
    /\ before.draw_flag
    /\ chip8.display = before.display

\* ------------------------------------------------------------ control flow
InitJump == InitWith(JumpRoms)
SpecJump == InitJump /\ [][Next]_vars

\* C11: between cycles, while no call has ended in an error, the program
\* counter is an even address from 0x200 to 0xFFE.
C11_ProgramCounter ==
    Running =>
        /\ chip8.pc % 2 = 0
        /\ chip8.pc >= START_ADDR
        /\ chip8.pc <= MEM_SIZE - 2

\* ------------------------------------------------------------ memory
InitMem == InitWith(MemRoms)
SpecMem == InitMem /\ [][Next]_vars

\* The rows of the sprite a DXYN with N = n reads when VY mod 32 is y0: the
\* loop of draw reads row r, and ends after it when y0 + r is not on the display.
RowsRead(n, y0) == {r \in 0 .. n - 1 : r <= DISPLAY_HEIGHT - y0}

\* The memory addresses the last cycle indexed, or would have indexed had no
\* index before it been outside the memory: the two bytes of the fetch, and
\* those of the instruction fetched.
Accessed ==
    {before.pc, before.pc + 1}
      \cup
    (IF opcode < 0 THEN {}
     ELSE LET x == FieldX(opcode)
              nn == FieldNN(opcode)
          IN CASE Family(opcode) = 13 ->
                    {before.i + r :
                        r \in RowsRead(FieldN(opcode), before.v[FieldY(opcode)] % DISPLAY_HEIGHT)}
               [] Family(opcode) = 15 /\ nn = 51 -> {before.i, before.i + 1, before.i + 2}
               [] Family(opcode) = 15 /\ nn \in {85, 101} -> {before.i + j : j \in 0 .. x}
               [] OTHER -> {})

\* C12: every memory access of a cycle (the fetch at pc and pc + 1, the sprite
\* rows of DXYN, the three bytes of FX33, the bytes of FX55 and FX65) uses an
\* address from 0 to 4095.
C12_MemoryAddressSafety ==
    cycles > 0 => Accessed \subseteq 0 .. MEM_SIZE - 1

\* ------------------------------------------------------------ shifts and carries
\* C13: after 8XY6 VF is the low bit, and after 8XYE the high bit, that
\* register X had before the instruction, for every X; for X # 15 register X
\* is then that value shifted by one bit, within 8 bits.
C13_ShiftFlags ==
    (ExecutedFamily(8) /\ FieldN(opcode) \in {6, 14}) =>
        LET x == FieldX(opcode)
            val == before.v[x]
        IN IF FieldN(opcode) = 6
           THEN /\ chip8.v[15] = val % 2
                /\ x # 15 => chip8.v[x] = val \div 2
           ELSE /\ chip8.v[15] = val \div 128
                /\ x # 15 => chip8.v[x] = (val * 2) % 256

\* C14: with a and b the values of registers X and Y before the instruction,
\* 8XY4 leaves VF = 1 exactly when a + b > 255 and, for X # 15, register X =
\* (a + b) mod 256; 8XY5 leaves VF = 1 exactly when a >= b and, for X # 15,
\* register X = (a - b) mod 256.
C14_CarryBorrow ==
    (ExecutedFamily(8) /\ FieldN(opcode) \in {4, 5}) =>
        LET x == FieldX(opcode)
            a == before.v[x]
            b == before.v[FieldY(opcode)]
        IN IF FieldN(opcode) = 4
           THEN /\ chip8.v[15] = 1 <=> a + b > 255
                /\ x # 15 => chip8.v[x] = (a + b) % 256
           ELSE /\ chip8.v[15] = 1 <=> a >= b
                /\ x # 15 => chip8.v[x] = (a - b) % 256

\* An 8XY4 on the flag register itself has carried: 255 + 255 leaves VF = 1.
C14_Witness ==
    /\ Executed(Ins(8, 15, 15, 4))
    /\ before.v[15] = 255
    /\ chip8.v[15] = 1

\* ------------------------------------------------------------ random bytes
InitRand == InitWith(RandRoms)
SpecRand == InitRand /\ [][Next]_vars

\* A step that is a run_cycle which did not run a CXNN to its end.
CycleWithoutRand ==
    /\ cycles' = cycles + 1
    /\ opcode' < 0 \/ Family(opcode') # 12 \/ chip8'.panic # "none"
\* A step that is a run_cycle which ran a CXNN to its end.
CycleWithRand ==
    /\ cycles' = cycles + 1
    /\ opcode' >= 0
    /\ Family(opcode') = 12
    /\ chip8'.panic = "none"

\* C15: the machine after a call is a function of the machine before it and
\* of the call, unless the call is a cycle that runs a CXNN: the result of any
\* other cycle is the same for every byte the random generator could yield,
\* and that of a key event is given by the key.  A CXNN cycle differs from
\* the paced machine only in the program counter and in register X, which
\* holds r AND NN for a byte r.
C15_Determinism ==
    [][ /\ CycleWithoutRand =>
              \A num \in RandBytes : chip8' = run_cycle(chip8, num, overflow_checks)
        /\ CycleWithRand =>
              \E r \in 0 .. U8 - 1 :
                  chip8' = [pace_timers(chip8) EXCEPT
                                !.pc = chip8.pc + 2,
                                !.v[FieldX(opcode')] = BitAnd(r, FieldNN(opcode'))]
        /\ (cycles' = cycles /\ host = "loop") =>
              \E key \in 0 .. KEYPAD_SIZE - 1 :
                  chip8' \in {key_down(chip8, key), key_up(chip8, key)} ]_vars

\* A CX0F has drawn the byte 85 into register 0, and the cycle after it has
\* added 1 to the masked byte.
C15_Witness ==
    /\ Executed(InsB(7, 0, 1))
    /\ cycles = 3
    /\ before.v[0] = BitAnd(85, 15)
    /\ chip8.v[0] = BitAnd(85, 15) + 1
    /\ Load(chip8.memory, Addr(1) + 1) = 15

\* ------------------------------------------------------------ display frame
\* A step that is a call of key_down or key_up.
KeyEvent == host = "loop" /\ cycles' = cycles
\* A step that is a run_cycle, and the kind of word it fetched.
CycleStep == cycles' = cycles + 1
FetchedClear == opcode' = 224
FetchedDraw == opcode' >= 0 /\ Family(opcode') = 13

\* C16: a cycle that runs neither a 00E0 nor a DXYN, and a key event, leave
\* every cell of the display as it was; a 00E0 leaves every cell 0; a DXYN
\* changes a cell only to its value XOR 1.
C16_DisplayFrame ==
    [][ /\ (KeyEvent \/ (CycleStep /\ ~FetchedClear /\ ~FetchedDraw)) =>
              chip8'.display = chip8.display
        /\ (CycleStep /\ FetchedClear) =>
              \A p \in 0 .. DISPLAY_WIDTH * DISPLAY_HEIGHT - 1 : Load(chip8'.display, p) = 0
        /\ (CycleStep /\ FetchedDraw) =>
              \A p \in Changed(chip8.display, chip8'.display) :
                  Load(chip8'.display, p) = BitXor(Load(chip8.display, p), 1) ]_vars

\* A 00E0 has cleared a display on which the glyph was lit.
C16_Witness ==
    /\ Executed(224)
    /\ Load(before.display, 0) = 1
    /\ DOMAIN chip8.display = {}

\* ------------------------------------------------------------ skips
InitSkip == InitWith(SkipRoms)
SpecSkip == InitSkip /\ [][Next]_vars

\* The six skip instructions of the opcode table, and the condition of each
\* on machine m.
IsSkip(op) ==
    \/ Family(op) \in {3, 4}
    \/ Family(op) \in {5, 9} /\ FieldN(op) = 0
    \/ Family(op) = 14 /\ FieldNN(op) \in {158, 161}
KeyIsDown(m, key) == key < KEYPAD_SIZE /\ m.keypad[key] # 0
SkipCondition(op, m) ==
    LET vx == m.v[FieldX(op)]
        vy == m.v[FieldY(op)]
    IN CASE Family(op) = 3 -> vx = FieldNN(op)
         [] Family(op) = 4 -> vx # FieldNN(op)
         [] Family(op) = 5 -> vx = vy
         [] Family(op) = 9 -> vx # vy
         [] Family(op) = 14 /\ FieldNN(op) = 158 -> KeyIsDown(m, vx)
         [] OTHER -> ~KeyIsDown(m, vx)

\* The instructions of the opcode table that are neither a jump, a call, a
\* return, a skip nor the wait for a key.
NonControlFlow(op) ==
    /\ InOpcodeTable(op)
    /\ ~IsSkip(op)
    /\ Family(op) \notin {1, 2, 11}
    /\ op # 238
    /\ ~(Family(op) = 15 /\ FieldNN(op) = 10)

\* C17: a cycle that fetches a skip instruction at a leaves the program
\* counter at a + 4 when the condition of the instruction holds and at a + 2
\* otherwise, and apart from the pacing of the cycle changes nothing else;
\* a cycle that runs any instruction that is not control flow leaves the
\* program counter at a + 2.
C17_Skips ==
    [][ (CycleStep /\ opcode' >= 0) =>
            /\ IsSkip(opcode') =>
                  chip8' = [pace_timers(chip8) EXCEPT
                                !.pc = IF SkipCondition(opcode', chip8)
                                       THEN chip8.pc + 4 ELSE chip8.pc + 2]
            /\ (NonControlFlow(opcode') /\ chip8'.panic = "none") =>
                  chip8'.pc = chip8.pc + 2 ]_vars

\* ------------------------------------------------------------ decimal digits
\* The last cycle fetched an FX33.
FetchedBcd == cycles > 0 /\ opcode >= 0 /\ Family(opcode) = 15 /\ FieldNN(opcode) = 51

\* C18: an FX33 with I + 2 <= 4095 ends without an error and leaves the
\* hundreds, tens and units digit of the value of register X at I, I + 1 and
\* I + 2; every other memory byte, every register and the address register
\* are as before.
C18_DecimalDigits ==
    (FetchedBcd /\ before.i + 2 <= MEM_SIZE - 1) =>
        LET val == before.v[FieldX(opcode)]
            i == before.i
            digits == {i, i + 1, i + 2}
        IN /\ chip8.panic = "none"
           /\ Load(chip8.memory, i) = val \div 100
           /\ Load(chip8.memory, i + 1) = (val \div 10) % 10
           /\ Load(chip8.memory, i + 2) = val % 10
           /\ \A a \in digits : Load(chip8.memory, a) \in 0 .. 9
           /\ 100 * Load(chip8.memory, i) + 10 * Load(chip8.memory, i + 1)
                  + Load(chip8.memory, i + 2) = val
           /\ \A a \in (DOMAIN before.memory \cup DOMAIN chip8.memory) \ digits :
                  Load(chip8.memory, a) = Load(before.memory, a)
           /\ chip8.v = before.v
           /\ chip8.i = before.i

\* An FX33 has written the digits 2, 5, 5 of 255 into the last three bytes of
\* the memory.
C18_Witness ==
    /\ FetchedBcd
    /\ before.i = MEM_SIZE - 3
    /\ before.v[FieldX(opcode)] = 255
    /\ Load(chip8.memory, MEM_SIZE - 3) = 2
    /\ Load(chip8.memory, MEM_SIZE - 1) = 5

\* ------------------------------------------------------------ dump and load
\* The last cycle ran an FX55, respectively an FX65, to its end.
ExecutedDump == ExecutedFamily(15) /\ FieldNN(opcode) = 85
ExecutedLoad == ExecutedFamily(15) /\ FieldNN(opcode) = 101

\* The FX65 of the last cycle had the X and the I of the last FX55, and found
\* memory[I .. I + X] as that FX55 left it.
LoadOfLastDump ==
    /\ ExecutedLoad
    /\ dumped.x = FieldX(opcode)
    /\ dumped.i = before.i
    /\ \A j \in 0 .. dumped.x : Load(before.memory, before.i + j) = dumped.region[j]

\* C19: FX55 and FX65 leave the address register as it was; FX55 writes
\* registers 0..X to memory[I .. I + X] and changes no other byte and no
\* register; FX65 writes memory[I .. I + X] to registers 0..X and changes no
\* other register and no byte; an FX65 with the X and I of the last FX55,
\* whose bytes are as that FX55 left them, leaves registers 0..X as they were
\* at the FX55.
C19_DumpLoadRoundTrip ==
    LET x == FieldX(opcode)
        i == before.i
    IN /\ ExecutedDump =>
             /\ chip8.i = i
             /\ chip8.v = before.v
             /\ \A j \in 0 .. x : Load(chip8.memory, i + j) = before.v[j]
             /\ \A a \in (DOMAIN before.memory \cup DOMAIN chip8.memory) \ {i + j : j \in 0 .. x} :
                    Load(chip8.memory, a) = Load(before.memory, a)
       /\ ExecutedLoad =>
             /\ chip8.i = i
             /\ chip8.memory = before.memory
             /\ \A r \in 0 .. NUM_REGISTERS - 1 :
                    chip8.v[r] = IF r <= x THEN Load(before.memory, i + r) ELSE before.v[r]
       /\ LoadOfLastDump => \A j \in 0 .. x : chip8.v[j] = dumped.v[j]

\* An F155 has dumped registers 0 and 1, both were set to other values, and
\* an F165 has brought the dumped values back.
C19_Witness ==
    /\ LoadOfLastDump
    /\ FieldX(opcode) = 1
    /\ before.v[0] # dumped.v[0]
    /\ before.v[1] # dumped.v[1]
    /\ chip8.v[0] = dumped.v[0]
    /\ chip8.v[1] = dumped.v[1]

\* ------------------------------------------------------------ binary cells
\* C20: every cell of the display and every cell of the keypad is 0 or 1;
\* after a DXYN VF is 0 or 1, and it is 0 when no cell the DXYN changed was 1
\* before.
C20_BinaryCells ==
    /\ DOMAIN chip8.display \subseteq 0 .. DISPLAY_WIDTH * DISPLAY_HEIGHT - 1
    /\ \A p \in DOMAIN chip8.display : chip8.display[p] \in {0, 1}
    /\ \A k \in 0 .. KEYPAD_SIZE - 1 : chip8.keypad[k] \in {0, 1}
    /\ ExecutedDraw =>
          /\ chip8.v[15] \in {0, 1}
          /\ (\A p \in Changed(before.display, chip8.display) : Load(before.display, p) = 0)
                => chip8.v[15] = 0

\* A DXYN has turned cells on beside the cells that were lit, with VF = 0,
\* while key 1 is down.
C20_Witness ==
    /\ ExecutedDraw
    /\ chip8.v[15] = 0
    /\ DOMAIN before.display # {}
    /\ Changed(before.display, chip8.display) # {}
    /\ chip8.keypad[1] = 1
====
